---- MODULE Spec2Model ----
\* Documentation extraction of morty (src/doc/mod.rs): the Item classifier
\* (Context::analyze_scope / analyze_scopes, the per-kind Item constructors),
\* the documentation normalizer (parse_docs) and Doc::new.
\*
\* Strings whose characters the code inspects (comment lines, documentation
\* text, type text) are sequences of one-character strings; identifier text,
\* which the code only copies, is a plain string.
EXTENDS Integers, Sequences, FiniteSets, TLC

VARIABLES
    raw,      \* RawDoc: the Scope tree handed to the classifier
    stack,    \* the active analyze_scopes calls, innermost last
    data,     \* Doc.data once Doc::new has returned
    log,      \* the warn! records emitted so far
    pc,       \* position of Doc::new: "run" or "done"
    block,    \* normalizer harness: the comment lines given to parse_docs
    shift,    \* normalizer harness: the common indentation added to block
    docOut,   \* normalizer harness: the results of parse_docs
    docPc,    \* normalizer harness: "in", "once", "twice" or "off"
    sib,      \* per-sibling classification: the separate results and their merge
    printer   \* Printer::with_pos: its locals and the calls of its callback

vars == <<raw, stack, data, log, pc, block, shift, docOut, docPc, sib, printer>>

----------------------------------------------------------------------------
\* Bounds

MaxLineLen == 3      \* characters per comment line
MaxLines == 2        \* comment lines per block
MaxShift == 2        \* added common indentation
MaxScopes == 3       \* scopes below the root scope
MaxNames == 2        \* names introduced by one net or parameter declaration
MaxSrcLen == 3       \* bytes of the source text given to the printer

----------------------------------------------------------------------------
\* Characters and strings

SP == " "
LF == "\n"
Chars == {SP, "a"}

\* char::is_whitespace on the modelled alphabet
is_whitespace(c) == c \in {SP, "\t", LF}

Min(S) == CHOOSE m \in S : \A x \in S : m <= x

RECURSIVE SeqsUpTo(_, _)
SeqsUpTo(S, n) ==
    IF n = 0 THEN {<<>>}
    ELSE LET prev == SeqsUpTo(S, n - 1)
         IN  prev \cup {Append(s, x) : s \in {t \in prev : Len(t) = n - 1}, x \in S}

Lines == SeqsUpTo(Chars, MaxLineLen)
Blocks == SeqsUpTo(Lines, MaxLines)

----------------------------------------------------------------------------
\* parse_docs (the documentation normalizer)

\* s.chars().take_while(|c| c.is_whitespace()).count()
RECURSIVE leading_whitespace(_)
leading_whitespace(s) ==
    IF s = <<>> \/ ~is_whitespace(Head(s)) THEN 0
    ELSE 1 + leading_whitespace(Tail(s))

\* A dedent that leaves one column of the common indentation.
common_spaces_short(comments) ==
    LET nonempty == SelectSeq(comments, LAMBDA s : s # <<>>)
    IN  IF nonempty = <<>> THEN 0
        ELSE LET m == Min({leading_whitespace(nonempty[i]) : i \in 1..Len(nonempty)})
             IN  IF m > 0 THEN m - 1 ELSE 0

\* A dedent that counts every whitespace character of a line, not the leading run.
common_spaces_any(comments) ==
    LET nonempty == SelectSeq(comments, LAMBDA s : s # <<>>)
        count(s) == Len(SelectSeq(s, is_whitespace))
    IN  IF nonempty = <<>> THEN 0
        ELSE Min({count(nonempty[i]) : i \in 1..Len(nonempty)})

\* The common number of leading spaces in all non-empty lines.
common_spaces(comments) ==
    LET nonempty == SelectSeq(comments, LAMBDA s : s # <<>>)
    IN  IF nonempty = <<>> THEN 0
        ELSE Min({leading_whitespace(nonempty[i]) : i \in 1..Len(nonempty)})

\* comment.chars().skip(n)
skip(s, n) == IF n >= Len(s) THEN <<>> ELSE SubSeq(s, n + 1, Len(s))

\* The loop of parse_docs: i is the line reached, first and result its locals.
RECURSIVE gobble(_, _, _, _, _)
gobble(comments, i, first, result, n) ==
    IF i > Len(comments) THEN result
    ELSE LET sep == IF first THEN result ELSE Append(result, LF)
         IN  gobble(comments, i + 1, FALSE, sep \o skip(comments[i], n), n)

\* A parse_docs whose loop starts with first = false.
parse_docs_not_first(comments) ==
    gobble(comments, 1, FALSE, <<>>, common_spaces(comments))

parse_docs(comments) ==
    gobble(comments, 1, TRUE, <<>>, common_spaces(comments))

----------------------------------------------------------------------------
\* The Scope tree (RawDoc.root) and the syntax nodes the classifier matches

\* RefNode variants that reach analyze_scope, by the arm that takes them.
ModuleKinds == {"ModuleDeclaration::Nonansi", "ModuleDeclaration::Ansi"}
OtherModuleKinds == {"ModuleDeclaration::Other"}    \* Wildcard, ExternNonansi, ExternAnsi
TypeKinds == {"TypeDeclaration::DataType", "TypeDeclaration::Other"}
NetKinds == {"NetDeclaration::NetTypeIdentifier", "NetDeclaration::NetType",
             "NetDeclaration::Interconnect"}
PortKinds == {"AnsiPortDeclaration::Net", "AnsiPortDeclaration::Other"}
ParamKinds == {"ParameterDeclaration::Param", "ParameterDeclaration::Type"}
NodeKinds == ModuleKinds \cup OtherModuleKinds \cup TypeKinds \cup NetKinds
             \cup PortKinds \cup ParamKinds

\* Shapes for which analyze_scope builds Items.
RecognizedKinds == ModuleKinds \cup {"TypeDeclaration::DataType",
    "NetDeclaration::NetTypeIdentifier", "NetDeclaration::NetType",
    "AnsiPortDeclaration::Net", "ParameterDeclaration::Param"}

\* Declarations that introduce a list of names.
ListKinds == {"NetDeclaration::NetTypeIdentifier", "NetDeclaration::NetType",
              "ParameterDeclaration::Param"}

\* Identifier text of the j-th name declared by scope i, as it stands in the source.
IdentText == << <<"a1", "a2", "a3", "a4">>, <<"b1", "b2", "b3", "b4">>,
                <<"c1", "c2", "c3", "c4">>, <<"d1", "d2", "d3", "d4">>,
                <<"e1", "e2", "e3", "e4">> >>

\* Comment blocks above a declaration, verbatim (not yet dedented).
DocTable == << << <<SP, "a">> >>,
               <<>>,
               <<>>,
               << <<SP, SP, "a">>, <<>>, <<SP, "b", SP>> >> >>

\* Source text of the type fragments of a declaration, each with the white
\* space that follows it; <<>> is an absent optional fragment.
TyTable(kind, alt) ==
    CASE kind = "NetDeclaration::NetType" ->
            IF alt = 0 THEN << <<"w", SP>>, <<>>, <<>>, <<"l", SP>>, <<>> >>
            ELSE << <<"w", SP>>, <<"s", SP>>, <<"v", SP>>, <<"l", SP>>, <<"d", SP>> >>
      [] kind = "NetDeclaration::NetTypeIdentifier" ->
            IF alt = 0 THEN << <<"t", SP>>, <<>> >>
            ELSE << <<"t", SP>>, <<"d", SP>> >>
      [] kind = "TypeDeclaration::DataType" ->
            IF alt = 0 THEN << <<"l", SP>> >> ELSE << <<"l", SP, "r", SP>> >>
      [] OTHER -> <<>>

\* The Scope of one node: node, comments, and the sub-nodes the classifier reads.
Scope(i, par, kind, dv) ==
    [ parent   |-> par,
      node     |-> kind,
      comments |-> DocTable[((i - 1 + dv) % Len(DocTable)) + 1],
      idents   |-> SubSeq(IdentText[i], 1,
                          IF kind \in ListKinds THEN (i % MaxNames) + 1 ELSE 1),
      ty_nodes |-> TyTable(kind, (i + dv) % 2) ]

\* A Scope tree given to Doc::new: scope i hangs below scope par[i] (0 is the
\* root scope), siblings in source order.
RawDoc(n, par, kind, dv) ==
    [i \in 1..n |-> Scope(i, par[i], kind[i], dv)]

\* The ways the comment blocks of DocTable are dealt to the scopes.
DocDeals == {0, 3}

\* Only a module declaration has a body that holds further scopes.
WellFormed(n, par, kind) ==
    \A i \in 1..n :
        /\ par[i] < i
        /\ par[i] # 0 => kind[par[i]] \in ModuleKinds \cup OtherModuleKinds

\* scope.children, in source order
RECURSIVE children_from(_, _, _)
children_from(r, p, i) ==
    IF i > Len(r) THEN <<>>
    ELSE (IF r[i].parent = p THEN <<i>> ELSE <<>>) \o children_from(r, p, i + 1)

children(r, p) == children_from(r, p, 1)

----------------------------------------------------------------------------
\* Source text lookup

\* SyntaxTree::get_str over a list of nodes: the text they span.
RECURSIVE get_str(_)
get_str(nodes) ==
    IF nodes = <<>> THEN <<>> ELSE Head(nodes) \o get_str(Tail(nodes))

RECURSIVE trim_start(_)
trim_start(s) ==
    IF s = <<>> \/ ~is_whitespace(Head(s)) THEN s ELSE trim_start(Tail(s))

RECURSIVE trim_end(_)
trim_end(s) ==
    IF s = <<>> \/ ~is_whitespace(s[Len(s)]) THEN s
    ELSE trim_end(SubSeq(s, 1, Len(s) - 1))

trim(s) == trim_end(trim_start(s))

parse_ident(ident) == ident

\* Option<T>::iter().flat_map(..): nothing for None.
opt(node) == IF node = <<>> THEN <<>> ELSE <<node>>

\* A chain that visits the delay before the data type.
ty_chain_delay_first(scope) ==
    LET n == scope.ty_nodes
    IN  CASE scope.node = "NetDeclaration::NetType" ->
                <<n[1]>> \o opt(n[2]) \o opt(n[3]) \o opt(n[5]) \o <<n[4]>>
          [] scope.node = "NetDeclaration::NetTypeIdentifier" -> opt(n[2]) \o <<n[1]>>
          [] OTHER -> n

\* The nodes whose text makes the type string: decl.nodes.0 ... chained in
\* the order written, the optional ones only when present.
ty_chain(scope) ==
    LET n == scope.ty_nodes
    IN  CASE scope.node = "NetDeclaration::NetType" ->
                <<n[1]>> \o opt(n[2]) \o opt(n[3]) \o <<n[4]>> \o opt(n[5])
          [] scope.node = "NetDeclaration::NetTypeIdentifier" -> <<n[1]>> \o opt(n[2])
          [] OTHER -> n

----------------------------------------------------------------------------
\* Items and Contexts

Context_default ==
    [params |-> <<>>, ports |-> <<>>, types |-> <<>>, modules |-> <<>>, vars |-> <<>>]

ModuleItem_from(scope, content) ==
    [doc |-> parse_docs(scope.comments), name |-> parse_ident(scope.idents[1]),
     content |-> content]

\* A constructor that walks the assignments from the last to the first.
ParamItem_from_reversed(scope, j) ==
    [doc |-> parse_docs(scope.comments),
     name |-> parse_ident(scope.idents[Len(scope.idents) + 1 - j])]

ParamItem_from(scope, j) ==
    [doc |-> parse_docs(scope.comments), name |-> parse_ident(scope.idents[j])]

PortItem_from(scope) ==
    [doc |-> parse_docs(scope.comments), name |-> parse_ident(scope.idents[1])]

TypeItem_from(scope) ==
    [doc |-> parse_docs(scope.comments), name |-> parse_ident(scope.idents[1]),
     ty |-> trim(get_str(ty_chain(scope)))]

\* A constructor that documents only the first name of a declaration.
VarItem_from_first_doc(scope, j) ==
    [doc |-> IF j = 1 THEN parse_docs(scope.comments) ELSE <<>>,
     name |-> parse_ident(scope.idents[j]),
     ty |-> trim(get_str(ty_chain(scope)))]

VarItem_from(scope, j) ==
    [doc |-> parse_docs(scope.comments), name |-> parse_ident(scope.idents[j]),
     ty |-> trim(get_str(ty_chain(scope)))]

----------------------------------------------------------------------------
\* Context::analyze_scope and Context::analyze_scopes

\* for decl_assign in ... { self.vars.push(VarItem::from(..)) }
RECURSIVE push_vars(_, _, _)
push_vars(list, scope, j) ==
    IF j > Len(scope.idents) THEN list
    ELSE push_vars(Append(list, VarItem_from(scope, j)), scope, j + 1)

\* for assign in ... { self.params.push(ParamItem::from(..)) }
RECURSIVE push_params(_, _, _)
push_params(list, scope, j) ==
    IF j > Len(scope.idents) THEN list
    ELSE push_params(Append(list, ParamItem_from(scope, j)), scope, j + 1)

\* A port arm that files the port with the variables.
push_port_as_var(ctx, scope) ==
    [ctx EXCEPT !.vars = Append(@, PortItem_from(scope) @@ [ty |-> <<>>])]

\* A port arm that lets an uncommented port take over the doc of the port
\* pushed before it.
push_port_inherit(ctx, scope) ==
    [ctx EXCEPT !.ports =
        Append(@, IF scope.comments = <<>> /\ Len(ctx.ports) > 0
                  THEN [PortItem_from(scope) EXCEPT !.doc = ctx.ports[Len(ctx.ports)].doc]
                  ELSE PortItem_from(scope))]

push_port(ctx, scope) ==
    [ctx EXCEPT !.ports = Append(@, PortItem_from(scope))]

\* The arms of analyze_scope that do not recurse: the Context after the call
\* and whether warn! was called.
analyze_scope(ctx, scope) ==
    CASE scope.node = "None" ->
            [ctx |-> ctx, warn |-> FALSE]
      [] scope.node \in OtherModuleKinds ->
            [ctx |-> ctx, warn |-> FALSE]
      [] scope.node = "TypeDeclaration::DataType" ->
            [ctx |-> [ctx EXCEPT !.types = Append(@, TypeItem_from(scope))],
             warn |-> FALSE]
      [] scope.node = "TypeDeclaration::Other" ->
            [ctx |-> ctx, warn |-> FALSE]
      [] scope.node \in {"NetDeclaration::NetTypeIdentifier", "NetDeclaration::NetType"} ->
            [ctx |-> [ctx EXCEPT !.vars = push_vars(@, scope, 1)], warn |-> FALSE]
      [] scope.node = "NetDeclaration::Interconnect" ->
            [ctx |-> ctx, warn |-> FALSE]
      [] scope.node = "AnsiPortDeclaration::Net" ->
            [ctx |-> push_port(ctx, scope), warn |-> FALSE]
      [] scope.node = "ParameterDeclaration::Param" ->
            [ctx |-> [ctx EXCEPT !.params = push_params(@, scope, 1)], warn |-> FALSE]
      [] OTHER ->
            [ctx |-> ctx, warn |-> TRUE]

\* An analyze_scopes loop that gives up at the first scope it yields nothing for.
loop_step_abort(frame, scope) ==
    LET r == analyze_scope(frame.ctx, scope)
    IN  [frame EXCEPT !.ctx = r.ctx,
                      !.idx = IF r.ctx = frame.ctx THEN Len(frame.scopes) + 1 ELSE @ + 1]

\* One turn of the loop of analyze_scopes on a scope that is not a module.
loop_step(frame, scope) ==
    [frame EXCEPT !.ctx = analyze_scope(frame.ctx, scope).ctx, !.idx = @ + 1]

\* A return from ModuleItem::from that files the module in the root Context.
push_module_root(stk, item) ==
    LET below == SubSeq(stk, 1, Len(stk) - 1)
    IN  [below EXCEPT ![1].ctx.modules = Append(@, item),
                      ![Len(below)].idx = @ + 1]

\* A return from ModuleItem::from that puts the module before its elder siblings.
push_module_front(stk, item) ==
    LET below == SubSeq(stk, 1, Len(stk) - 1)
    IN  [below EXCEPT ![Len(below)].ctx.modules = <<item>> \o @,
                      ![Len(below)].idx = @ + 1]

\* self.modules.push(ModuleItem::from(..)): the callee's frame is dropped and
\* the Item lands in the caller's Context.
push_module(stk, item) ==
    LET below == SubSeq(stk, 1, Len(stk) - 1)
    IN  [below EXCEPT ![Len(below)].ctx.modules = Append(@, item),
                      ![Len(below)].idx = @ + 1]

----------------------------------------------------------------------------
\* Doc::new as a state machine

ParallelOff == sib = [parts |-> <<>>, merged |-> <<>>, pc |-> "off"]

PrinterOff == printer = [pc |-> "off"]

NormalizerOff ==
    /\ block = <<>>
    /\ shift = 0
    /\ docOut = [plain |-> <<>>, shifted |-> <<>>, again |-> <<>>]
    /\ docPc = "off"

\* Doc::new up to the call of analyze_scopes on the root scope's children.
Init ==
    /\ \E n \in 1..MaxScopes :
         \E par \in [1..n -> 0..(n - 1)], kind \in [1..n -> NodeKinds] :
           /\ WellFormed(n, par, kind)
           /\ \E dv \in DocDeals : raw = RawDoc(n, par, kind, dv)
    /\ stack = << [owner |-> 0, scopes |-> children(raw, 0), idx |-> 1,
                   ctx |-> Context_default] >>
    /\ data = Context_default
    /\ log = <<>>
    /\ pc = "run"
    /\ NormalizerOff
    /\ ParallelOff
    /\ PrinterOff

top == stack[Len(stack)]
current == raw[top.scopes[top.idx]]
InLoop == pc = "run" /\ top.idx <= Len(top.scopes)

\* A non-ANSI arm that builds the Module Item without analyzing the body.
EnterModule_nonansi_flat ==
    /\ InLoop
    /\ current.node \in ModuleKinds
    /\ stack' = Append(stack, [owner |-> top.scopes[top.idx],
                               scopes |-> IF current.node = "ModuleDeclaration::Nonansi"
                                          THEN <<>>
                                          ELSE children(raw, top.scopes[top.idx]),
                               idx |-> 1, ctx |-> Context_default])
    /\ UNCHANGED <<raw, data, log, pc, block, shift, docOut, docPc, sib, printer>>

\* analyze_scope on a module declaration of a recognized header style:
\* ModuleItem::from starts a fresh Context and analyzes the children.
EnterModule ==
    /\ InLoop
    /\ current.node \in ModuleKinds
    /\ stack' = Append(stack, [owner |-> top.scopes[top.idx],
                               scopes |-> children(raw, top.scopes[top.idx]),
                               idx |-> 1, ctx |-> Context_default])
    /\ UNCHANGED <<raw, data, log, pc, block, shift, docOut, docPc, sib, printer>>

\* analyze_scope on any other scope.
AnalyzeScope ==
    /\ InLoop
    /\ current.node \notin ModuleKinds
    /\ stack' = [stack EXCEPT ![Len(stack)] = loop_step(top, current)]
    /\ log' = IF analyze_scope(top.ctx, current).warn
              THEN Append(log, top.scopes[top.idx]) ELSE log
    /\ UNCHANGED <<raw, data, pc, block, shift, docOut, docPc, sib, printer>>

\* ModuleItem::from returns and the Item is pushed to the caller's modules.
LeaveModule ==
    /\ pc = "run"
    /\ top.idx > Len(top.scopes)
    /\ Len(stack) > 1
    /\ stack' = push_module(stack, ModuleItem_from(raw[top.owner], top.ctx))
    /\ UNCHANGED <<raw, data, log, pc, block, shift, docOut, docPc, sib, printer>>

\* analyze_scopes on the root's children is over: Doc::new returns the Doc.
Return ==
    /\ pc = "run"
    /\ top.idx > Len(top.scopes)
    /\ Len(stack) = 1
    /\ data' = top.ctx
    /\ stack' = <<>>
    /\ pc' = "done"
    /\ UNCHANGED <<raw, log, block, shift, docOut, docPc, sib, printer>>

Next == EnterModule \/ AnalyzeScope \/ LeaveModule \/ Return

Spec == Init /\ [][Next]_vars

----------------------------------------------------------------------------
\* parse_docs on its own: the inputs are drawn from Blocks and 0..MaxShift

ExtractionOff ==
    /\ raw = <<>>
    /\ stack = <<>>
    /\ data = Context_default
    /\ log = <<>>
    /\ pc = "off"

\* The block with every line prefixed by c spaces.
indent(comments, c) ==
    [i \in 1..Len(comments) |-> [j \in 1..c |-> SP] \o comments[i]]

InitDocs ==
    /\ block \in Blocks
    /\ shift \in 0..MaxShift
    /\ docOut = [plain |-> <<>>, shifted |-> <<>>, again |-> <<>>]
    /\ docPc = "in"
    /\ ExtractionOff
    /\ ParallelOff
    /\ PrinterOff

\* parse_docs on the block as given and on the block indented by shift.
Normalize ==
    /\ docPc = "in"
    /\ docOut' = [docOut EXCEPT !.plain = parse_docs(block),
                                !.shifted = parse_docs(indent(block, shift))]
    /\ docPc' = "once"
    /\ UNCHANGED <<raw, stack, data, log, pc, block, shift, sib, printer>>

\* parse_docs on its own result for a one-line block.
Renormalize ==
    /\ docPc = "once"
    /\ Len(block) = 1
    /\ docOut' = [docOut EXCEPT !.again = parse_docs(<<docOut.plain>>)]
    /\ docPc' = "twice"
    /\ UNCHANGED <<raw, stack, data, log, pc, block, shift, sib, printer>>

NextDocs == Normalize \/ Renormalize

SpecDocs == InitDocs /\ [][NextDocs]_vars

----------------------------------------------------------------------------
\* Properties of the normalizer

NoEmptyLine(comments) == \A i \in 1..Len(comments) : comments[i] # <<>>
AllEmpty(comments) == \A i \in 1..Len(comments) : comments[i] = <<>>
\* Some non-empty line starts in column 0.
Unindented(comments) ==
    \E i \in 1..Len(comments) : comments[i] # <<>> /\ ~is_whitespace(comments[i][1])

\* C6 as stated: prefixing every line of any block, empty lines included,
\* with the same number of spaces leaves the result of normalize unchanged.
C6_DedentInvarianceAnyBlock ==
    docPc # "in" => docOut.shifted = docOut.plain

\* C6 amended: dedent invariance holds for the blocks that have no empty
\* line, or that have a non-empty line starting in column 0, or whose lines
\* are all empty.
C6_DedentInvariance ==
    (docPc # "in" /\ (NoEmptyLine(block) \/ Unindented(block) \/ AllEmpty(block)))
        => docOut.shifted = docOut.plain

C6_Witness ==
    /\ docPc = "once"
    /\ shift = MaxShift
    /\ Len(block) >= 2
    /\ NoEmptyLine(block)
    /\ ~Unindented(block)
    /\ \E i \in 1..Len(block) : ~is_whitespace(block[i][Len(block[i])])
    /\ docOut.shifted = docOut.plain

\* The reference normalizer of the specification: k is the least number of
\* leading whitespace characters over the non-empty lines (0 without any),
\* every line loses its first k characters, and the lines are joined by one
\* newline between neighbours.
RefLeading(s) ==
    CHOOSE n \in 0..Len(s) :
        /\ \A i \in 1..n : is_whitespace(s[i])
        /\ n < Len(s) => ~is_whitespace(s[n + 1])

RefK(comments) ==
    LET counts == {RefLeading(comments[i]) :
                     i \in {j \in 1..Len(comments) : Len(comments[j]) > 0}}
    IN  IF counts = {} THEN 0
        ELSE CHOOSE k \in counts : \A c \in counts : k <= c

RefDrop(s, k) == [i \in 1..(IF Len(s) > k THEN Len(s) - k ELSE 0) |-> s[i + k]]

RECURSIVE RefJoin(_)
RefJoin(lines) ==
    IF Len(lines) = 0 THEN <<>>
    ELSE IF Len(lines) = 1 THEN lines[1]
    ELSE lines[1] \o <<LF>> \o RefJoin(Tail(lines))

RefNormalize(comments) ==
    RefJoin([i \in 1..Len(comments) |-> RefDrop(comments[i], RefK(comments))])

\* C7: parse_docs equals the reference normalizer on every block, and the
\* empty block and the block of one empty line both give the empty string.
C7_NormalizeIsReference ==
    docPc # "in" =>
        /\ docOut.plain = RefNormalize(block)
        /\ block \in {<<>>, << <<>> >>} => docOut.plain = <<>>

C7_Witness ==
    /\ docPc = "once"
    /\ Len(block) = 2
    /\ block[1] = <<>>
    /\ RefK(block) = 2
    /\ Len(docOut.plain) = 2

\* C8: normalizing the normalized form of a single line gives it back.
C8_SingleLineIdempotent ==
    docPc = "twice" => docOut.again = docOut.plain

C8_Witness ==
    /\ docPc = "twice"
    /\ Len(block) = 1
    /\ leading_whitespace(block[1]) > 0
    /\ docOut.plain # <<>>
    /\ docOut.plain # block[1]
    /\ docOut.again = docOut.plain

----------------------------------------------------------------------------
\* Reading the Doc

Range(f) == {f[i] : i \in DOMAIN f}
ScopeIds == DOMAIN raw
NetForms == {"NetDeclaration::NetTypeIdentifier", "NetDeclaration::NetType"}

\* The Contexts of the Doc held for scope p: the root Context for the root
\* scope, the content of the Module Item named after p otherwise.
RECURSIVE ContextsOf(_)
ContextsOf(p) ==
    IF p = 0 THEN {data}
    ELSE UNION { {m.content : m \in {x \in Range(c.modules) : x.name = raw[p].idents[1]}} :
                 c \in ContextsOf(raw[p].parent) }

\* Every ancestor of scope i is a module of a recognized header style.
RECURSIVE Reached(_)
Reached(i) ==
    \/ raw[i].parent = 0
    \/ raw[raw[i].parent].node \in ModuleKinds /\ Reached(raw[i].parent)

ListNames(list) == {list[i].name : i \in DOMAIN list}
OwnNames(c) ==
    ListNames(c.params) \cup ListNames(c.ports) \cup ListNames(c.types)
    \cup ListNames(c.modules) \cup ListNames(c.vars)

RECURSIVE AllNames(_)
AllNames(c) == OwnNames(c) \cup UNION {AllNames(c.modules[i].content) : i \in DOMAIN c.modules}

\* The list of a Context in which the Items of a node of this kind belong.
ListOf(c, kind) ==
    CASE kind \in ModuleKinds \cup OtherModuleKinds -> c.modules
      [] kind \in TypeKinds -> c.types
      [] kind \in NetKinds -> c.vars
      [] kind \in PortKinds -> c.ports
      [] kind \in ParamKinds -> c.params

\* The items of scope i are in the Context c, in the list of their kind.
ItemsPresent(i, c) == Range(raw[i].idents) \subseteq ListNames(ListOf(c, raw[i].node))

----------------------------------------------------------------------------
\* Properties of the classifier

\* C1: classifying a net declaration of either form with N names and comment
\* lines D appends exactly N Var Items to vars, in the order of the names,
\* each with doc = normalize(D) and all with the same type string.
C1_NetDeclarationItems ==
    [][(InLoop /\ current.node \in NetForms) =>
        LET old == top.ctx.vars
            new == stack'[Len(stack)].ctx.vars
            n == Len(current.idents)
        IN  /\ Len(new) = Len(old) + n
            /\ SubSeq(new, 1, Len(old)) = old
            /\ \A j \in 1..n :
                 /\ new[Len(old) + j].name = current.idents[j]
                 /\ new[Len(old) + j].doc = RefNormalize(current.comments)
                 /\ new[Len(old) + j].ty = new[Len(old) + 1].ty]_vars

C1_Witness ==
    /\ pc = "done"
    /\ \E i \in ScopeIds : \E c \in ContextsOf(raw[i].parent) :
         /\ raw[i].node \in NetForms
         /\ Len(raw[i].idents) >= 2
         /\ Len(raw[i].comments) >= 2
         /\ \E a \in DOMAIN c.vars :
              /\ a + 1 \in DOMAIN c.vars
              /\ c.vars[a].name = raw[i].idents[1]
              /\ c.vars[a + 1].name = raw[i].idents[2]
              /\ c.vars[a + 1].doc = RefNormalize(raw[i].comments)
              /\ c.vars[a + 1].doc # get_str(raw[i].comments)
              /\ c.vars[a + 1].ty # <<>>

\* C2: classifying a value-parameter declaration with N assignments and
\* comment lines D appends exactly N Param Items to params, in the order of
\* the assignments, each with doc = normalize(D).
C2_ParamDeclarationItems ==
    [][(InLoop /\ current.node = "ParameterDeclaration::Param") =>
        LET old == top.ctx.params
            new == stack'[Len(stack)].ctx.params
            n == Len(current.idents)
        IN  /\ Len(new) = Len(old) + n
            /\ SubSeq(new, 1, Len(old)) = old
            /\ \A j \in 1..n :
                 new[Len(old) + j] = [doc |-> RefNormalize(current.comments),
                                      name |-> current.idents[j]]]_vars

C2_Witness ==
    /\ pc = "done"
    /\ \E i \in ScopeIds : \E c \in ContextsOf(raw[i].parent) :
         /\ raw[i].node = "ParameterDeclaration::Param"
         /\ Len(raw[i].idents) >= 2
         /\ Len(raw[i].comments) >= 2
         /\ \E a \in DOMAIN c.params :
              /\ a + 1 \in DOMAIN c.params
              /\ c.params[a].name = raw[i].idents[1]
              /\ c.params[a + 1].name = raw[i].idents[2]
              /\ c.params[a + 1].doc = RefNormalize(raw[i].comments)

\* The scopes that own a Module Item in the Doc.
HasModuleItem(p) == raw[p].node \in ModuleKinds /\ Reached(p)

\* C3: the Module Item of a module scope M below a module scope P is in the
\* modules list of the Context of P's Module Item, and neither in the root
\* Context nor in the Context of any other module; the root Context holds
\* exactly the Items of the root scope's direct children.
C3_ModuleNesting ==
    pc = "done" =>
        /\ \A m \in ScopeIds :
             (HasModuleItem(m) /\ raw[m].parent # 0) =>
                /\ \E c \in ContextsOf(raw[m].parent) :
                     raw[m].idents[1] \in ListNames(c.modules)
                /\ raw[m].idents[1] \notin OwnNames(data)
                /\ \A q \in ScopeIds : \A c \in ContextsOf(q) :
                     q # raw[m].parent => raw[m].idents[1] \notin OwnNames(c)
        /\ OwnNames(data) =
             UNION {Range(raw[i].idents) :
                      i \in {j \in ScopeIds : raw[j].parent = 0
                                              /\ raw[j].node \in RecognizedKinds}}

C3_Witness ==
    /\ pc = "done"
    /\ \E m \in ScopeIds :
         /\ raw[m].node \in ModuleKinds
         /\ raw[m].parent # 0
         /\ raw[raw[m].parent].parent # 0
         /\ \E c \in ContextsOf(raw[m].parent) : raw[m].idents[1] \in ListNames(c.modules)
         /\ Len(data.modules) = 1

\* Shapes analyze_scope builds no Item for.
UnsupportedKinds == NodeKinds \ RecognizedKinds

\* C4: a scope of an unsupported shape does not stop the extraction of its
\* siblings or ancestors: the supported siblings before and after it have
\* their Items in the Context of their level, and the enclosing Module Item
\* exists.
C4_UnsupportedDoesNotAbort ==
    pc = "done" =>
        \A u \in ScopeIds : \A s \in ScopeIds :
            ( /\ raw[u].node \in UnsupportedKinds
              /\ raw[s].node \in RecognizedKinds
              /\ raw[s].parent = raw[u].parent
              /\ Reached(u) )
            => /\ ContextsOf(raw[u].parent) # {}
               /\ \A c \in ContextsOf(raw[u].parent) : ItemsPresent(s, c)

C4_Witness ==
    /\ pc = "done"
    /\ \E a \in ScopeIds, u \in ScopeIds, b \in ScopeIds :
         /\ a < u /\ u < b
         /\ raw[a].parent = raw[u].parent /\ raw[b].parent = raw[u].parent
         /\ raw[u].node \in UnsupportedKinds
         /\ raw[a].node \in RecognizedKinds /\ raw[b].node \in RecognizedKinds
         /\ \A c \in ContextsOf(raw[u].parent) : ItemsPresent(a, c) /\ ItemsPresent(b, c)

\* C5 as stated: every scope that reaches the classifier and yields no Item
\* has a warning in the log.
C5_EveryDropIsLogged ==
    pc = "done" =>
        \A i \in ScopeIds :
            (Reached(i) /\ Range(raw[i].idents) \cap AllNames(data) = {})
                => i \in Range(log)

\* The scenario of the specification: one comment line above an ANSI module
\* whose header declares an input and an output port, with an empty body.
RoundTripScopes ==
    << [parent |-> 0, node |-> "ModuleDeclaration::Ansi",
        comments |-> << <<SP, "a">> >>, idents |-> <<"a1">>, ty_nodes |-> <<>>],
       [parent |-> 1, node |-> "AnsiPortDeclaration::Net",
        comments |-> <<>>, idents |-> <<"b1">>, ty_nodes |-> <<>>],
       [parent |-> 1, node |-> "AnsiPortDeclaration::Net",
        comments |-> <<>>, idents |-> <<"c1">>, ty_nodes |-> <<>>] >>

C10_EveryRecognizedIsDocumented ==
    pc = "done" =>
        \A i \in ScopeIds :
            raw[i].node \in RecognizedKinds => Range(raw[i].idents) \subseteq AllNames(data)

----------------------------------------------------------------------------
\* Source text that does not resolve: get_str(..).unwrap() panics

\* The scopes whose classification looks up source text.
ResolvesText(kind) == kind \in RecognizedKinds

\* A failed lookup that is swallowed: the scope is skipped and the pass goes on.
Panic_recover ==
    /\ pc = "run"
    /\ \/ /\ top.idx <= Len(top.scopes)
          /\ current.node \in RecognizedKinds \ ModuleKinds
          /\ stack' = [stack EXCEPT ![Len(stack)].idx = @ + 1]
       \/ /\ top.idx > Len(top.scopes)
          /\ Len(stack) > 1
          /\ stack' = [SubSeq(stack, 1, Len(stack) - 1) EXCEPT ![Len(stack) - 1].idx = @ + 1]
    /\ UNCHANGED <<raw, data, log, pc, block, shift, docOut, docPc, sib, printer>>

\* get_str returns None for a name or type sub-node of the scope being
\* classified (for a module: after its children, when ModuleItem::from reads
\* the name): unwrap panics, the call stack unwinds and no Doc is built.
Panic ==
    /\ pc = "run"
    /\ \/ /\ top.idx <= Len(top.scopes)
          /\ ResolvesText(current.node) /\ current.node \notin ModuleKinds
       \/ /\ top.idx > Len(top.scopes)
          /\ Len(stack) > 1
    /\ stack' = <<>>
    /\ pc' = "panic"
    /\ UNCHANGED <<raw, data, log, block, shift, docOut, docPc, sib, printer>>

NextFatal == Next \/ Panic

SpecFatal == Init /\ [][NextFatal]_vars

\* C11: a failed text lookup aborts extraction with no Doc; a Doc is only
\* returned once every scope below the root and below every documented
\* module has been classified; there is no third, recoverable outcome and no
\* partly built Doc is visible before the return.
C11_MissingTextIsFatal ==
    /\ pc \in {"run", "done", "panic"}
    /\ pc # "done" => data = Context_default
    /\ pc = "panic" => stack = <<>>
    /\ pc = "done" =>
         \A i \in ScopeIds :
             (Reached(i) /\ raw[i].node \in RecognizedKinds) =>
                 /\ ContextsOf(raw[i].parent) # {}
                 /\ \A c \in ContextsOf(raw[i].parent) : ItemsPresent(i, c)

C11_Witness ==
    /\ pc = "panic"
    /\ Len(log) > 0
    /\ Len(raw) >= 3
    /\ data = Context_default
    /\ stack = <<>>

----------------------------------------------------------------------------
\* The Documentation Model the specification describes: per list, the Items
\* of the scopes of that kind, by scope position and then by name position.

RECURSIVE Flatten(_)
Flatten(ss) == IF ss = <<>> THEN <<>> ELSE Head(ss) \o Flatten(Tail(ss))

\* The type text of a declaration: its fragments in declaration order, the
\* absent ones left out, without surrounding white space.
RefTrim(s) ==
    LET solid == {i \in 1..Len(s) : ~is_whitespace(s[i])}
    IN  IF solid = {} THEN <<>>
        ELSE SubSeq(s, CHOOSE i \in solid : \A j \in solid : i <= j,
                       CHOOSE i \in solid : \A j \in solid : i >= j)

RefTy(i) == RefTrim(Flatten(raw[i].ty_nodes))

RECURSIVE RefContext(_)
RefContext(ids) ==
    LET of(kinds) == SelectSeq(ids, LAMBDA i : raw[i].node \in kinds)
        named(i) == [j \in 1..Len(raw[i].idents) |->
                       [doc |-> RefNormalize(raw[i].comments), name |-> raw[i].idents[j]]]
        typed(i) == [j \in 1..Len(raw[i].idents) |->
                       [doc |-> RefNormalize(raw[i].comments), name |-> raw[i].idents[j],
                        ty |-> RefTy(i)]]
        each(kinds, items(_)) ==
            Flatten([k \in 1..Len(of(kinds)) |-> items(of(kinds)[k])])
        module(i) == << [doc |-> RefNormalize(raw[i].comments), name |-> raw[i].idents[1],
                         content |-> RefContext(children(raw, i))] >>
    IN  [params  |-> each({"ParameterDeclaration::Param"}, named),
         ports   |-> each({"AnsiPortDeclaration::Net"}, named),
         types   |-> each({"TypeDeclaration::DataType"}, typed),
         modules |-> each(ModuleKinds, module),
         vars    |-> each(NetForms, typed)]

\* The Module Item of a module scope, from its name, comments and children
\* alone: the header style is not looked at.
RefModuleItem(m) ==
    [doc |-> RefNormalize(raw[m].comments), name |-> raw[m].idents[1],
     content |-> RefContext(children(raw, m))]

\* C12: an ANSI and a non-ANSI module declaration each give one Module Item
\* that is determined by the name text, the comment lines and the children
\* only (name, doc = normalize(comments), content = build_context(children)),
\* so two modules that differ in header style alone give equal Items.
C12_HeaderStyleIrrelevant ==
    pc = "done" =>
        \A m \in ScopeIds : HasModuleItem(m) =>
            \E c \in ContextsOf(raw[m].parent) :
                /\ Len(SelectSeq(c.modules, LAMBDA x : x.name = raw[m].idents[1])) = 1
                /\ RefModuleItem(m) \in Range(c.modules)

C12_Witness ==
    /\ pc = "done"
    /\ \E m \in ScopeIds, n \in ScopeIds :
         /\ raw[m].node = "ModuleDeclaration::Ansi"
         /\ raw[n].node = "ModuleDeclaration::Nonansi"
         /\ raw[m].parent = 0 /\ raw[n].parent = 0
         /\ children(raw, n) # <<>>
         /\ RefModuleItem(m) \in Range(data.modules)
         /\ RefModuleItem(n) \in Range(data.modules)
         /\ RefModuleItem(n).content # Context_default

\* The list of a Context that takes the Items of a node of this kind.
FieldOf(kind) ==
    CASE kind \in ModuleKinds \cup OtherModuleKinds -> "modules"
      [] kind \in TypeKinds -> "types"
      [] kind \in NetKinds -> "vars"
      [] kind \in PortKinds -> "ports"
      [] kind \in ParamKinds -> "params"

IsPrefix(s, t) == Len(s) <= Len(t) /\ SubSeq(t, 1, Len(s)) = s

\* C13: every step of the pass only appends: in every Context under
\* construction each of the five lists keeps what it held, in place, and the
\* only list that grows is the one of the kind of the scope being classified;
\* the returned root Context holds per list exactly the Items of that kind, by
\* scope position and then by name position.
C13_KindPartitionedAppendOnly ==
    /\ [](pc = "done" => data = RefContext(children(raw, 0)))
    /\ [][\A k \in 1..Len(stack) : k <= Len(stack') =>
            /\ stack[k].idx <= Len(stack[k].scopes)
            /\ \A f \in DOMAIN Context_default :
                 /\ IsPrefix(stack[k].ctx[f], stack'[k].ctx[f])
                 /\ stack'[k].ctx[f] # stack[k].ctx[f] =>
                      f = FieldOf(raw[stack[k].scopes[stack[k].idx]].node)]_vars

C13_Witness ==
    /\ pc = "done"
    /\ Len(data.vars) >= 3
    /\ Len(data.params) >= 2
    /\ data.vars[1].name # data.vars[3].name
    /\ data = RefContext(children(raw, 0))

----------------------------------------------------------------------------
\* Per-sibling classification: every child of the root classified into a
\* Context of its own, in any order, and the results merged in source order

\* analyze_scopes and analyze_scope as the recursive functions they are:
\* the Context after the scopes ids[k..] have been analyzed into ctx.
RECURSIVE analyze_scopes_from(_, _, _)
RECURSIVE analyze_one(_, _)
analyze_scopes_from(ctx, ids, k) ==
    IF k > Len(ids) THEN ctx
    ELSE analyze_scopes_from(analyze_one(ctx, ids[k]), ids, k + 1)

analyze_one(ctx, i) ==
    IF raw[i].node \in ModuleKinds
    THEN [ctx EXCEPT !.modules =
            Append(@, ModuleItem_from(raw[i],
                        analyze_scopes_from(Context_default, children(raw, i), 1)))]
    ELSE analyze_scope(ctx, raw[i]).ctx

RootScopes == children(raw, 0)

InitSiblings ==
    /\ Init
    /\ raw[1].comments = DocTable[1]

\* One child of the root, any that is still open, is classified on its own.
ClassifySibling ==
    /\ pc = "done"
    /\ sib.pc \in {"off", "open"}
    /\ \E i \in Range(RootScopes) \ DOMAIN sib.parts :
         sib' = [sib EXCEPT !.parts = (i :> analyze_one(Context_default, i)) @@ @,
                            !.pc = "open"]
    /\ UNCHANGED <<raw, stack, data, log, pc, block, shift, docOut, docPc, printer>>

\* The separate results are put together, list by list, in source order.
MergeSiblings ==
    /\ pc = "done"
    /\ sib.pc \in {"off", "open"}
    /\ DOMAIN sib.parts = Range(RootScopes)
    /\ sib' = [sib EXCEPT
                 !.merged = [f \in DOMAIN Context_default |->
                               Flatten([k \in 1..Len(RootScopes) |->
                                          sib.parts[RootScopes[k]][f]])],
                 !.pc = "merged"]
    /\ UNCHANGED <<raw, stack, data, log, pc, block, shift, docOut, docPc, printer>>

NextSiblings == Next \/ ClassifySibling \/ MergeSiblings

SpecSiblings == InitSiblings /\ [][NextSiblings]_vars

\* C14: classifying the children of the root one by one, in any order, each
\* into a Context of its own, and merging the results per list in source
\* order gives the Context the sequential pass returned.
C14_SiblingsIndependent ==
    sib.pc = "merged" => sib.merged = data

C14_Witness ==
    /\ sib.pc = "merged"
    /\ Len(RootScopes) >= 3
    /\ raw[RootScopes[1]].node = raw[RootScopes[3]].node
    /\ raw[RootScopes[1]].node \in NetForms
    /\ Len(data.vars) >= 3
    /\ sib.merged = data

----------------------------------------------------------------------------
\* C15: the type string of a Var Item is the text of the declaration's type
\* fragments in declaration order (net type, strength, vectored/scalared,
\* data type, delay; or net type identifier, delay control), the absent ones
\* left out, with no white space around it, and holds none of the names.
C15_TypeStringInOrder ==
    pc = "done" =>
        \A i \in ScopeIds : (Reached(i) /\ raw[i].node \in NetForms) =>
            \A c \in ContextsOf(raw[i].parent) : \A k \in DOMAIN c.vars :
                c.vars[k].name \in Range(raw[i].idents) =>
                    /\ c.vars[k].ty = RefTy(i)
                    /\ Range(c.vars[k].ty) \cap Range(raw[i].idents) = {}
                    /\ c.vars[k].ty # <<>> =>
                         /\ ~is_whitespace(c.vars[k].ty[1])
                         /\ ~is_whitespace(c.vars[k].ty[Len(c.vars[k].ty)])

C15_Witness ==
    /\ pc = "done"
    /\ \E a \in DOMAIN data.vars, b \in DOMAIN data.vars :
         /\ data.vars[a].ty = <<"w", SP, "l">>
         /\ data.vars[b].ty = <<"w", SP, "s", SP, "v", SP, "l", SP, "d">>
    /\ \E a \in DOMAIN data.vars : data.vars[a].ty = <<"t", SP, "d">>

----------------------------------------------------------------------------
\* Printer::with_pos, with print_single or print_pretty as its callback

CHAR_CR == 13
CHAR_LF == 10
Bytes == {CHAR_CR, CHAR_LF, 97}

\* Options are <<>> for None and <<x>> for Some(x); src[pos] of the code is
\* src[pos + 1] here.
InitPrinter ==
    /\ \E n \in 1..MaxSrcLen : \E src \in [1..n -> Bytes] :
         \E print_pos \in 0..(n - 1), single \in BOOLEAN :
           printer = [pc |-> "loop", src |-> src, print_pos |-> print_pos,
                      single |-> single, pos |-> 0, column |-> 1,
                      last_lf |-> <<>>, calls |-> <<>>]
    /\ ExtractionOff
    /\ NormalizerOff
    /\ ParallelOff

\* The locals of one turn of the outer loop, after the line feed test.
is_lf == printer.src[printer.pos + 1] = CHAR_LF
column_now == IF is_lf THEN printer.column + 1 ELSE printer.column
last_lf_now == IF is_lf THEN <<printer.pos>> ELSE printer.last_lf

\* The inner loop: the first CR or LF at or after pos, or src.len().
RECURSIVE scan_crlf(_, _)
scan_crlf(src, next_crlf) ==
    IF next_crlf < Len(src) /\ src[next_crlf + 1] \notin {CHAR_CR, CHAR_LF}
    THEN scan_crlf(src, next_crlf + 1)
    ELSE next_crlf

\* The arguments of func(pos, column, row, next_crlf, last_lf).
call_now ==
    [pos |-> printer.pos,
     column |-> column_now,
     row |-> IF last_lf_now # <<>> THEN printer.pos - last_lf_now[1] ELSE printer.pos + 1,
     next_crlf |-> scan_crlf(printer.src, printer.pos),
     last_lf |-> last_lf_now]

\* beg of print_pretty
beg(call) == IF call.last_lf # <<>> THEN call.last_lf[1] + 1 ELSE 0

\* print_pretty slices src[beg..next_crlf] and repeats " " pos - beg times:
\* both panic when beg is past the other end.
callback_panics ==
    /\ printer.print_pos = printer.pos
    /\ ~printer.single
    /\ \/ beg(call_now) > call_now.next_crlf
       \/ beg(call_now) > call_now.pos

\* One turn of the outer loop of with_pos, callback included.
WithPosStep ==
    /\ printer.pc = "loop"
    /\ printer.pos < Len(printer.src)
    /\ ~callback_panics
    /\ printer' = [printer EXCEPT
                     !.column = column_now,
                     !.last_lf = last_lf_now,
                     !.calls = IF printer.print_pos = printer.pos
                               THEN Append(@, call_now) ELSE @,
                     !.pos = @ + 1]
    /\ UNCHANGED <<raw, stack, data, log, pc, block, shift, docOut, docPc, sib>>

\* The turn in which the callback is print_pretty and its slice is out of range.
WithPosPanic ==
    /\ printer.pc = "loop"
    /\ printer.pos < Len(printer.src)
    /\ callback_panics
    /\ printer' = [printer EXCEPT
                     !.column = column_now,
                     !.last_lf = last_lf_now,
                     !.calls = Append(@, call_now),
                     !.pc = "panic"]
    /\ UNCHANGED <<raw, stack, data, log, pc, block, shift, docOut, docPc, sib>>

WithPosReturn ==
    /\ printer.pc = "loop"
    /\ printer.pos >= Len(printer.src)
    /\ printer' = [printer EXCEPT !.pc = "done"]
    /\ UNCHANGED <<raw, stack, data, log, pc, block, shift, docOut, docPc, sib>>

NextPrinter == WithPosStep \/ WithPosPanic \/ WithPosReturn

SpecPrinter == InitPrinter /\ [][NextPrinter]_vars

\* C16 as stated: for every source text and every error position inside it,
\* the callback of with_pos gets beg <= pos <= next_crlf <= len(src), and it
\* is called at most once.
C16_CallbackArgsInRange ==
    printer.pc # "off" =>
        /\ Len(printer.calls) <= 1
        /\ \A k \in DOMAIN printer.calls :
             LET call == printer.calls[k]
             IN  /\ beg(call) <= call.pos
                 /\ call.pos <= call.next_crlf
                 /\ call.next_crlf <= Len(printer.src)

====
